---- MODULE Spec2Model ----
(***************************************************************************)
(* cremalink.domain.device: the Device facade over a transport.  Command   *)
(* alias resolution and encoding, property alias resolution, schema        *)
(* loading (Device.from_map) and the monitor helpers.                      *)
(*                                                                         *)
(* A Python str is a sequence of one-character strings, a bytes value a    *)
(* sequence of integers 0..255, an Optional value a record [some, val].    *)
(***************************************************************************)
EXTENDS Integers, Sequences, FiniteSets, TLC

\* ------------------------------------------------------------ Python values

None ==
    [some |-> FALSE, val |-> <<>>]

Some(v) ==
    [some |-> TRUE, val |-> v]

\* Python truthiness of an Optional[str]: None and "" are falsy
Truthy(o) ==
    o.some /\ Len(o.val) > 0

UpperChars ==
    << "A", "B", "C", "D", "E", "F", "G", "H", "I", "J", "K", "L", "M",
       "N", "O", "P", "Q", "R", "S", "T", "U", "V", "W", "X", "Y", "Z" >>

LowerChars ==
    << "a", "b", "c", "d", "e", "f", "g", "h", "i", "j", "k", "l", "m",
       "n", "o", "p", "q", "r", "s", "t", "u", "v", "w", "x", "y", "z" >>

Whitespace ==
    { " ", "\t", "\n" }

\* position of c in s (a sequence of distinct characters), 0 when absent
IndexIn(c, s) ==
    IF \E i \in 1..Len(s) : s[i] = c
    THEN CHOOSE i \in 1..Len(s) : s[i] = c
    ELSE 0

\* the lower-case letter of each upper-case letter
LowerOf ==
    [c \in { UpperChars[i] : i \in 1..Len(UpperChars) } |->
        LowerChars[IndexIn(c, UpperChars)]]

LowerChar(c) ==
    IF c \in DOMAIN LowerOf THEN LowerOf[c] ELSE c

\* str.lower()
Lower(s) ==
    [i \in 1..Len(s) |-> LowerChar(s[i])]

\* str.strip()
Strip(s) ==
    LET keep == { i \in 1..Len(s) : s[i] \notin Whitespace }
    IN  IF keep = {}
        THEN <<>>
        ELSE SubSeq(s, CHOOSE i \in keep : \A j \in keep : i <= j,
                       CHOOSE i \in keep : \A j \in keep : j <= i)

\* ---------------------------------------------------------------- hex, base64

HexChars ==
    << "0", "1", "2", "3", "4", "5", "6", "7",
       "8", "9", "a", "b", "c", "d", "e", "f" >>

\* the value of each hex digit, in either case
HexValueOf ==
    [c \in { HexChars[i] : i \in 1..16 } \cup { "A", "B", "C", "D", "E", "F" } |->
        IndexIn(LowerChar(c), HexChars) - 1]

\* value of a hex digit, -1 for any other character
HexDigitValue(c) ==
    IF c \in DOMAIN HexValueOf THEN HexValueOf[c] ELSE -1

RECURSIVE HexOfInt(_)
\* hex(n)[2:] for n >= 0: minimal lower-case digits, "0" for 0
HexOfInt(n) ==
    IF n < 16
    THEN << HexChars[n + 1] >>
    ELSE Append(HexOfInt(n \div 16), HexChars[(n % 16) + 1])

RECURSIVE FromHexFrom(_, _, _)
\* bytearray.fromhex from position i on: whitespace is skipped between bytes,
\* the two digits of a byte are adjacent; anything else raises ValueError
FromHexFrom(s, i, acc) ==
    IF i > Len(s)
    THEN [ok |-> TRUE, bytes |-> acc]
    ELSE IF s[i] \in Whitespace
    THEN FromHexFrom(s, i + 1, acc)
    ELSE IF i + 1 > Len(s) \/ HexDigitValue(s[i]) < 0 \/ HexDigitValue(s[i + 1]) < 0
    THEN [ok |-> FALSE, bytes |-> <<>>]
    ELSE FromHexFrom(s, i + 2,
                     Append(acc, 16 * HexDigitValue(s[i]) + HexDigitValue(s[i + 1])))

FromHex(s) ==
    FromHexFrom(s, 1, <<>>)

B64Chars ==
    << "A", "B", "C", "D", "E", "F", "G", "H", "I", "J", "K", "L", "M",
       "N", "O", "P", "Q", "R", "S", "T", "U", "V", "W", "X", "Y", "Z",
       "a", "b", "c", "d", "e", "f", "g", "h", "i", "j", "k", "l", "m",
       "n", "o", "p", "q", "r", "s", "t", "u", "v", "w", "x", "y", "z",
       "0", "1", "2", "3", "4", "5", "6", "7", "8", "9", "+", "/" >>

\* the six-bit value of each character of the alphabet
B64ValueOf ==
    [c \in { B64Chars[i] : i \in 1..64 } |-> IndexIn(c, B64Chars) - 1]

RECURSIVE B64Encode(_)
\* base64.b64encode(bs).decode("utf-8")
B64Encode(bs) ==
    IF Len(bs) = 0
    THEN <<>>
    ELSE IF Len(bs) = 1
    THEN << B64Chars[(bs[1] \div 4) + 1],
            B64Chars[((bs[1] % 4) * 16) + 1], "=", "=" >>
    ELSE IF Len(bs) = 2
    THEN << B64Chars[(bs[1] \div 4) + 1],
            B64Chars[((bs[1] % 4) * 16) + (bs[2] \div 16) + 1],
            B64Chars[((bs[2] % 16) * 4) + 1], "=" >>
    ELSE << B64Chars[(bs[1] \div 4) + 1],
            B64Chars[((bs[1] % 4) * 16) + (bs[2] \div 16) + 1],
            B64Chars[((bs[2] % 16) * 4) + (bs[3] \div 64) + 1],
            B64Chars[(bs[3] % 64) + 1] >> \o B64Encode(SubSeq(bs, 4, Len(bs)))

\* a well-formed base64 string: whole quanta of alphabet characters, with at
\* most two "=" and only at the very end
B64Valid(s) ==
    /\ Len(s) % 4 = 0
    /\ \A i \in 1..Len(s) :
          \/ s[i] \in DOMAIN B64ValueOf
          \/ /\ s[i] = "="
             /\ i >= Len(s) - 1
             /\ \A j \in (i + 1)..Len(s) : s[j] = "="

RECURSIVE B64Decode(_)
\* the bytes a well-formed base64 string stands for
B64Decode(s) ==
    IF Len(s) = 0
    THEN <<>>
    ELSE LET v(i) == IF s[i] = "=" THEN 0 ELSE B64ValueOf[s[i]]
             b1   == (v(1) * 4) + (v(2) \div 16)
             b2   == ((v(2) % 16) * 16) + (v(3) \div 4)
             b3   == ((v(3) % 4) * 64) + v(4)
             rest == B64Decode(SubSeq(s, 5, Len(s)))
         IN  IF s[3] = "=" THEN << b1 >>
             ELSE IF s[4] = "=" THEN << b1, b2 >>
             ELSE << b1, b2, b3 >> \o rest

\* ------------------------------------------------------------- JSON values

EmptyDict ==
    << >>

JDict(d) ==
    [kind |-> "dict", dict |-> d, items |-> << >>]

JList(xs) ==
    [kind |-> "list", dict |-> EmptyDict, items |-> xs]

JAbsent ==
    [kind |-> "absent", dict |-> EmptyDict, items |-> << >>]

\* a dict with no keys
IsEmptyDict(v) ==
    v.kind = "dict" /\ DOMAIN v.dict = {}

\* ------------------------------------------------------------------ inputs

Latte ==
    << "l", "a", "t", "t", "e" >>

LatteCap ==
    << "L", "a", "t", "t", "e" >>

LatteUpper ==
    << "L", "A", "T", "T", "E" >>

LattePadded ==
    << " ", "l", "a", "t", "t", "e", " " >>

Tea ==
    << "t", "e", "a" >>

TeaCap ==
    << "\t", "T", "e", "a" >>

Mocha ==
    << "M", "o", "c", "h", "a" >>

Brew ==
    << "b", "r", "e", "w" >>

HexA1 ==
    << "a", "1" >>

HexB2C3 ==
    << "B", "2", "c", "3" >>

HexSpaced ==
    << "a", "1", " ", "0", "f" >>

HexOdd ==
    << "a", "1", "b" >>

HexBad ==
    << "z", "z" >>

Temp ==
    << "t", "e", "m", "p" >>

TempCap ==
    << "T", "e", "m", "p" >>

TempPadded ==
    << " ", "t", "e", "m", "p" >>

Pressure ==
    << "p", "r", "e", "s", "s", "u", "r", "e" >>

KeyT1 ==
    << "T", "1" >>

\* a command_map section: "latte" and "tea" are usable, "brew" has an empty
\* command, "Mocha" is a key no normalised alias equals, "  " has no command
CommandMapData ==
    (Latte :> [command |-> Some(HexA1)])
        @@ (Tea :> [command |-> Some(HexB2C3)])
        @@ (Brew :> [command |-> Some(<< >>)])
        @@ (Mocha :> [command |-> Some(HexA1)])
        @@ (<< " ", " " >> :> [command |-> None])

PropertyMapData ==
    (Temp :> KeyT1) @@ (TempCap :> Pressure)

MonitorProfileData ==
    (Temp :> [offset |-> 0, width |-> 1])

DocNoPath ==
    [kind |-> "nopath", command_map |-> JAbsent, property_map |-> JAbsent,
     monitor_profile |-> JAbsent]

DocNotMapping ==
    [kind |-> "notmapping", command_map |-> JAbsent, property_map |-> JAbsent,
     monitor_profile |-> JAbsent]

DocInvalidJson ==
    [kind |-> "invalid_json", command_map |-> JAbsent, property_map |-> JAbsent,
     monitor_profile |-> JAbsent]

DocFull ==
    [kind |-> "mapping", command_map |-> JDict(CommandMapData),
     property_map |-> JDict(PropertyMapData),
     monitor_profile |-> JDict(MonitorProfileData)]

DocPartial ==
    [kind |-> "mapping", command_map |-> JDict(CommandMapData),
     property_map |-> JAbsent, monitor_profile |-> JAbsent]

DocWrongShape ==
    [kind |-> "mapping", command_map |-> JList(<< Latte >>),
     property_map |-> JList(<< Temp >>),
     monitor_profile |-> JList(<< Temp >>)]

\* the device map documents from_map is given
Documents ==
    { DocNoPath, DocNotMapping, DocInvalidJson, DocFull, DocPartial, DocWrongShape }

\* the aliases do() is called with
DrinkNames ==
    { Latte, LatteCap, LatteUpper, LattePadded, Tea, TeaCap, Mocha, Brew, << >> }

\* the raw commands send_command() is called with
RawCommands ==
    { HexA1, HexB2C3, HexSpaced, HexOdd, HexBad }

\* the names the property helpers are called with
PropertyNames ==
    { Temp, TempCap, TempPadded, Pressure }

\* the longest hex rendering of an instant that is followed
MaxHexDigits ==
    4

\* int(time.time()) at the call: 0x1, 0x10, 0x100, ... one instant for each
\* number of hex digits
Instants ==
    { 16 ^ (k - 1) : k \in 1..MaxHexDigits }

\* the inputs of the command helpers where every operation is interleaved
FewDrinkNames ==
    { Latte, LattePadded, Mocha, Brew }

FewRawCommands ==
    { HexA1, HexOdd }

FewInstants ==
    { 1, 16 }

\* what the transport's snapshot carries as raw_b64
Telemetries ==
    { None, Some(<< >>), Some(<< "o", "R", "A", "=" >>), Some(<< "A", "Q", "I", "D" >>),
      Some(<< "n", "o", "t", "-", "v", "a", "l", "i", "d", "!", "!" >>) }

HookTransport ==
    [has_set_mappings |-> TRUE, set_mappings_raises |-> FALSE]

\* the transports a Device is built over: with or without the optional
\* set_mappings hook, which may raise
Transports ==
    { [has_set_mappings |-> FALSE, set_mappings_raises |-> FALSE],
      HookTransport,
      [has_set_mappings |-> TRUE, set_mappings_raises |-> TRUE] }

\* -------------------------------------------------------------------- state

VARIABLES
    pc,               \* "new" before Device.from_map, then "ready" or "failed"
    document,         \* the device map document behind device_map_path
    transport,        \* the transport the Device is built over
    set_mappings_log, \* the arguments of every transport.set_mappings call
    t_mappings,       \* the mappings the transport holds
    telemetry,        \* the raw_b64 the transport's snapshot carries now
    command_map,      \* Device.command_map
    property_map,     \* Device.property_map
    monitor_profile,  \* Device.monitor_profile
    constructed,      \* the three fields as the constructor received them
    view,             \* the MonitorView get_monitor returned last
    ret,              \* the last call: its arguments, outcome and transport calls
    prev_do           \* the do() call before the last one

vars ==
    << pc, document, transport, set_mappings_log, t_mappings, telemetry,
       command_map, property_map, monitor_profile, constructed, view, ret, prev_do >>

\* a call record: what was called, how it ended, and what it asked of the
\* transport (sent: the payload given to transport.send_command; queried: the
\* key given to transport.get_property; reads: transport.get_monitor calls;
\* tel: the telemetry at the call; born: the telemetry when the accessed view
\* was made)
Call(op, arg) ==
    [op |-> op, arg |-> arg, now |-> 0, status |-> "ok", exc |-> "",
     resolved |-> None, sent |-> None, queried |-> None, reads |-> 0,
     tel |-> None, born |-> None, val |-> None, keys |-> {}]

Raised(call, exc) ==
    [call EXCEPT !.status = "error", !.exc = exc]

NoMappings ==
    [set |-> FALSE, command_map |-> JAbsent, property_map |-> JAbsent]

NoView ==
    [made |-> FALSE, snapshot |-> [raw_b64 |-> None],
     profile |-> [fields |-> EmptyDict], born |-> None]

\* ------------------------------------------------------------ schema loading

EmptyMapData ==
    [command_map |-> JAbsent, property_map |-> JAbsent, monitor_profile |-> JAbsent]

\* _load_device_map: {} without a path or for a document that is not a dict;
\* json.load raises on text that is not JSON
LoadDeviceMap(doc) ==
    IF doc.kind = "nopath"
    THEN [raised |-> FALSE, data |-> EmptyMapData]
    ELSE IF doc.kind = "invalid_json"
    THEN [raised |-> TRUE, data |-> EmptyMapData]
    ELSE IF doc.kind = "mapping"
    THEN [raised |-> FALSE,
          data |-> [command_map |-> doc.command_map,
                    property_map |-> doc.property_map,
                    monitor_profile |-> doc.monitor_profile]]
    ELSE [raised |-> FALSE, data |-> EmptyMapData]

\* map_data.get(name, {}): the section as it is, {} only when the key is absent
Section(v) ==
    IF v.kind = "absent" THEN JDict(EmptyDict) ELSE v

\* MonitorProfile.from_dict: tolerant of missing or malformed input
ProfileFromDict(v) ==
    IF v.kind = "dict" THEN [fields |-> v.dict] ELSE [fields |-> EmptyDict]

\* an exception out of set_mappings reaches the caller of from_map
SetMappingsHookUnguarded(t, cm, pm) ==
    IF t.has_set_mappings
    THEN [calls |-> << [command_map |-> cm, property_map |-> pm] >>,
          propagated |-> t.set_mappings_raises]
    ELSE [calls |-> << >>, propagated |-> FALSE]

\* the optional transport hook of from_map: called when the transport has it,
\* whatever it raises is dropped
SetMappingsHook(t, cm, pm) ==
    IF t.has_set_mappings
    THEN [calls |-> << [command_map |-> cm, property_map |-> pm] >>,
          propagated |-> FALSE]
    ELSE [calls |-> << >>, propagated |-> FALSE]

\* from_map up to the hook: the three values the constructor will receive
LoadedMaps(doc) ==
    LET loaded == LoadDeviceMap(doc)
    IN  [raised |-> loaded.raised,
         command_map |-> Section(loaded.data.command_map),
         property_map |-> Section(loaded.data.property_map),
         monitor_profile |-> ProfileFromDict(Section(loaded.data.monitor_profile))]

\* Device.from_map
FromMap ==
    /\ pc = "new"
    /\ LET maps == LoadedMaps(document)
           hook == SetMappingsHook(transport, maps.command_map, maps.property_map)
           args == [set |-> TRUE, command_map |-> maps.command_map,
                    property_map |-> maps.property_map]
       IN  IF maps.raised
           THEN /\ pc' = "failed"
                /\ UNCHANGED << set_mappings_log, t_mappings, command_map,
                                property_map, monitor_profile, constructed >>
           ELSE /\ set_mappings_log' = set_mappings_log \o hook.calls
                \* a set_mappings that raises may or may not have stored them
                /\ \E stored \in BOOLEAN :
                      /\ (stored = FALSE) => (Len(hook.calls) = 0 \/ transport.set_mappings_raises)
                      /\ (stored = TRUE) => Len(hook.calls) > 0
                      /\ t_mappings' = IF stored THEN args ELSE t_mappings
                /\ IF hook.propagated
                   THEN /\ pc' = "failed"
                        /\ UNCHANGED << command_map, property_map,
                                        monitor_profile, constructed >>
                   ELSE /\ pc' = "ready"
                        /\ command_map' = maps.command_map
                        /\ property_map' = maps.property_map
                        /\ monitor_profile' = maps.monitor_profile
                        /\ constructed' = [command_map |-> maps.command_map,
                                           property_map |-> maps.property_map,
                                           monitor_profile |-> maps.monitor_profile]
    /\ UNCHANGED << document, transport, telemetry, view, ret, prev_do >>

\* ----------------------------------------------------------------- commands

\* the timestamp bytes come first
EncodeCommandSwapped(hex_command, now) ==
    LET head == FromHex(hex_command)
        timestamp == FromHex(HexOfInt(now))
    IN  IF head.ok /\ timestamp.ok
        THEN [ok |-> TRUE, payload |-> B64Encode(timestamp.bytes \o head.bytes)]
        ELSE [ok |-> FALSE, payload |-> << >>]

\* _encode_command at the instant now = int(time.time()): either bytearray.fromhex
\* may raise ValueError
EncodeCommand(hex_command, now) ==
    LET head == FromHex(hex_command)
        timestamp == FromHex(HexOfInt(now))
    IN  IF head.ok /\ timestamp.ok
        THEN [ok |-> TRUE, payload |-> B64Encode(head.bytes \o timestamp.bytes)]
        ELSE [ok |-> FALSE, payload |-> << >>]

\* Device.send_command
SendCommand(command, now) ==
    LET encoded == EncodeCommand(command, now)
        call == [Call("send_command", command) EXCEPT !.now = now]
    IN  IF encoded.ok
        THEN [call EXCEPT !.sent = Some(encoded.payload)]
        ELSE Raised(call, "ValueError")

\* the alias is trimmed but its case is kept
DoKeyCaseKept(drink_name) ==
    Strip(drink_name)

\* Device.do: key = drink_name.lower().strip()
DoKey(drink_name) ==
    Strip(Lower(drink_name))

\* Device.do: self.command_map.get(key, {}).get("command")
LookupCommand(d, key) ==
    IF key \in DOMAIN d THEN d[key].command ELSE None

\* an alias without a command is sent as the empty command
DoUnchecked(cm, drink_name, now) ==
    LET key == DoKey(drink_name)
        call == [Call("do", drink_name) EXCEPT !.now = now]
    IN  IF cm.kind # "dict"
        THEN Raised(call, "AttributeError")
        ELSE LET hex_command == LookupCommand(cm.dict, key)
                 hex == IF hex_command.some THEN hex_command.val ELSE << >>
             IN  [SendCommand(hex, now) EXCEPT
                     !.op = "do", !.arg = drink_name, !.resolved = hex_command]

\* Device.do
Do(cm, drink_name, now) ==
    LET key == DoKey(drink_name)
        call == [Call("do", drink_name) EXCEPT !.now = now]
    IN  IF cm.kind # "dict"
        THEN Raised(call, "AttributeError")
        ELSE LET hex_command == LookupCommand(cm.dict, key)
             IN  IF ~Truthy(hex_command)
                 THEN Raised(call, "ValueError")
                 ELSE [SendCommand(hex_command.val, now) EXCEPT
                          !.op = "do", !.arg = drink_name, !.resolved = hex_command]

\* Device.get_commands
GetCommands(cm) ==
    IF cm.kind # "dict"
    THEN Raised(Call("get_commands", << >>), "AttributeError")
    ELSE [Call("get_commands", << >>) EXCEPT !.keys = DOMAIN cm.dict]

\* --------------------------------------------------------------- properties

\* the alias is normalised like a command alias before the lookup
ResolvePropertyNormalised(pm, alias, default) ==
    LET key == Strip(Lower(alias))
        call == Call("resolve_property", alias)
    IN  IF pm.kind # "dict"
        THEN Raised(call, "AttributeError")
        ELSE [call EXCEPT !.val =
                 IF key \in DOMAIN pm.dict THEN Some(pm.dict[key])
                 ELSE IF Truthy(default) THEN default ELSE Some(alias)]

\* Device.resolve_property: self.property_map.get(alias, default or alias)
ResolveProperty(pm, alias, default) ==
    LET call == Call("resolve_property", alias)
    IN  IF pm.kind # "dict"
        THEN Raised(call, "AttributeError")
        ELSE [call EXCEPT !.val =
                 IF alias \in DOMAIN pm.dict THEN Some(pm.dict[alias])
                 ELSE IF Truthy(default) THEN default ELSE Some(alias)]

\* Device.get_property: the transport is asked for the resolved name
GetProperty(pm, name) ==
    LET actual_name == ResolveProperty(pm, name, Some(name))
    IN  IF actual_name.status = "error"
        THEN [actual_name EXCEPT !.op = "get_property"]
        ELSE [Call("get_property", name) EXCEPT !.queried = actual_name.val]

\* Device.get_property_aliases
GetPropertyAliases(pm) ==
    IF pm.kind # "dict"
    THEN Raised(Call("get_property_aliases", << >>), "AttributeError")
    ELSE [Call("get_property_aliases", << >>) EXCEPT !.keys = DOMAIN pm.dict]

\* ------------------------------------------------------------------ monitor

\* MonitorFrame.from_b64: raises on a string that is not base64
FrameFromB64(raw_b64) ==
    IF B64Valid(raw_b64)
    THEN [raised |-> FALSE, bytes |-> B64Decode(raw_b64)]
    ELSE [raised |-> TRUE, bytes |-> << >>]

\* the snapshot is not read from the transport
GetMonitorSnapshotStale(tel) ==
    [Call("get_monitor_snapshot", << >>) EXCEPT !.tel = tel]

\* Device.get_monitor_snapshot: one transport.get_monitor() call
GetMonitorSnapshot(tel) ==
    [Call("get_monitor_snapshot", << >>) EXCEPT !.reads = 1, !.tel = tel, !.val = tel]

\* Device.get_monitor: the view is built over the snapshot just read
GetMonitor(tel, profile) ==
    LET snapshot == GetMonitorSnapshot(tel)
    IN  [call |-> [snapshot EXCEPT !.op = "get_monitor"],
         view |-> [made |-> TRUE, snapshot |-> [raw_b64 |-> snapshot.val],
                   profile |-> profile, born |-> tel]]

\* the decode error reaches the caller
GetMonitorFramePropagating(tel) ==
    LET snapshot == GetMonitorSnapshot(tel)
        call == [snapshot EXCEPT !.op = "get_monitor_frame", !.val = None]
    IN  IF ~Truthy(snapshot.val)
        THEN call
        ELSE LET frame == FrameFromB64(snapshot.val.val)
             IN  IF frame.raised
                 THEN Raised(call, "MalformedEncoding")
                 ELSE [call EXCEPT !.val = Some(frame.bytes)]

\* Device.get_monitor_frame: None without telemetry and None when the decode raises
GetMonitorFrame(tel) ==
    LET snapshot == GetMonitorSnapshot(tel)
        call == [snapshot EXCEPT !.op = "get_monitor_frame", !.val = None]
    IN  IF ~Truthy(snapshot.val)
        THEN call
        ELSE LET frame == FrameFromB64(snapshot.val.val)
             IN  IF frame.raised
                 THEN call
                 ELSE [call EXCEPT !.val = Some(frame.bytes)]

\* an access on a MonitorView: the decode of the snapshot the view holds, None
\* without telemetry
ViewGet(v, tel) ==
    LET raw == v.snapshot.raw_b64
        call == [Call("view", << >>) EXCEPT !.tel = tel, !.born = v.born]
    IN  IF Truthy(raw) /\ B64Valid(raw.val)
        THEN [call EXCEPT !.val = Some(B64Decode(raw.val))]
        ELSE call

\* ------------------------------------------------------------------ actions

\* a Device not built yet, over one of the given documents and transports
InitOver(documents, transports, telemetries) ==
    /\ pc = "new"
    /\ document \in documents
    /\ transport \in transports
    /\ telemetry \in telemetries
    /\ set_mappings_log = << >>
    /\ t_mappings = NoMappings
    /\ command_map = JDict(EmptyDict)
    /\ property_map = JDict(EmptyDict)
    /\ monitor_profile = [fields |-> EmptyDict]
    /\ constructed = [command_map |-> JDict(EmptyDict),
                      property_map |-> JDict(EmptyDict),
                      monitor_profile |-> [fields |-> EmptyDict]]
    /\ view = NoView
    /\ ret = Call("none", << >>)
    /\ prev_do = [called |-> FALSE, arg |-> << >>, resolved |-> None]

\* the call rewrites command_map with its keys normalised
ReturnsNormalisingKeys(call) ==
    /\ ret' = call
    /\ prev_do' = IF call.op = "do" /\ ret.op = "do"
                   THEN [called |-> TRUE, arg |-> ret.arg, resolved |-> ret.resolved]
                   ELSE prev_do
    /\ command_map' =
          IF command_map.kind = "dict"
          THEN JDict([k \in { Strip(Lower(a)) : a \in DOMAIN command_map.dict } |->
                        LET a == CHOOSE a \in DOMAIN command_map.dict : Strip(Lower(a)) = k
                        IN  command_map.dict[a]])
          ELSE command_map
    /\ UNCHANGED << pc, document, transport, set_mappings_log, t_mappings,
                    telemetry, property_map, monitor_profile, constructed >>

\* a call returns: no method of Device assigns a field of self
Returns(call) ==
    /\ ret' = call
    /\ prev_do' = IF call.op = "do" /\ ret.op = "do"
                   THEN [called |-> TRUE, arg |-> ret.arg, resolved |-> ret.resolved]
                   ELSE prev_do
    /\ UNCHANGED << pc, document, transport, set_mappings_log, t_mappings,
                    telemetry, command_map, property_map, monitor_profile,
                    constructed >>

DoCall(names, instants) ==
    /\ pc = "ready"
    /\ \E drink_name \in names, now \in instants :
          Returns(Do(command_map, drink_name, now))
    /\ UNCHANGED view

SendCommandCall(commands, instants) ==
    /\ pc = "ready"
    /\ \E command \in commands, now \in instants :
          Returns(SendCommand(command, now))
    /\ UNCHANGED view

GetCommandsCall ==
    /\ pc = "ready"
    /\ Returns(GetCommands(command_map))
    /\ UNCHANGED view

ResolvePropertyCall ==
    /\ pc = "ready"
    /\ \E alias \in PropertyNames :
          Returns(ResolveProperty(property_map, alias, None))
    /\ UNCHANGED view

GetPropertyCall ==
    /\ pc = "ready"
    /\ \E name \in PropertyNames :
          Returns(GetProperty(property_map, name))
    /\ UNCHANGED view

GetPropertyAliasesCall ==
    /\ pc = "ready"
    /\ Returns(GetPropertyAliases(property_map))
    /\ UNCHANGED view

GetMonitorSnapshotCall ==
    /\ pc = "ready"
    /\ Returns(GetMonitorSnapshot(telemetry))
    /\ UNCHANGED view

GetMonitorCall ==
    /\ pc = "ready"
    /\ Returns(GetMonitor(telemetry, monitor_profile).call)
    /\ view' = GetMonitor(telemetry, monitor_profile).view

GetMonitorFrameCall ==
    /\ pc = "ready"
    /\ Returns(GetMonitorFrame(telemetry))
    /\ UNCHANGED view

ViewGetCall ==
    /\ pc = "ready"
    /\ view.made
    /\ Returns(ViewGet(view, telemetry))
    /\ UNCHANGED view

\* the device reports new telemetry to the transport
TelemetryChange ==
    /\ \E t \in Telemetries \ {telemetry} : telemetry' = t
    /\ UNCHANGED << pc, document, transport, set_mappings_log, t_mappings,
                    command_map, property_map, monitor_profile, constructed,
                    view, ret, prev_do >>

\* every operation, over a Device built from a full or a wrongly shaped document
Init ==
    InitOver({ DocFull, DocWrongShape }, { HookTransport }, { None })

Next ==
    \/ FromMap
    \/ DoCall(FewDrinkNames, FewInstants)
    \/ SendCommandCall(FewRawCommands, FewInstants)
    \/ GetCommandsCall
    \/ ResolvePropertyCall
    \/ GetPropertyCall
    \/ GetPropertyAliasesCall
    \/ GetMonitorSnapshotCall
    \/ GetMonitorCall
    \/ GetMonitorFrameCall
    \/ ViewGetCall
    \/ TelemetryChange

Spec ==
    Init /\ [][Next]_vars

\* schema loading alone, over every document and transport
InitLoad ==
    InitOver(Documents, Transports, Telemetries)

NextLoad ==
    FromMap

SpecLoad ==
    InitLoad /\ [][NextLoad]_vars

\* the command helpers, over every document and transport
InitCmd ==
    InitOver(Documents, Transports, { None })

NextCmd ==
    \/ FromMap
    \/ DoCall(DrinkNames, Instants)
    \/ SendCommandCall(RawCommands, Instants)
    \/ GetCommandsCall

SpecCmd ==
    InitCmd /\ [][NextCmd]_vars

\* the property helpers, over every document and transport
InitProp ==
    InitOver(Documents, Transports, { None })

NextProp ==
    \/ FromMap
    \/ ResolvePropertyCall
    \/ GetPropertyCall
    \/ GetPropertyAliasesCall

SpecProp ==
    InitProp /\ [][NextProp]_vars

\* the monitor helpers, over every document and transport
InitMon ==
    InitOver(Documents, Transports, { None })

NextMon ==
    \/ FromMap
    \/ GetMonitorSnapshotCall
    \/ GetMonitorCall
    \/ GetMonitorFrameCall
    \/ ViewGetCall
    \/ TelemetryChange

SpecMon ==
    InitMon /\ [][NextMon]_vars

\* ------------------------------------------------------------------- claims

\* equal after lower-casing and stripping surrounding whitespace
NormEq(x, y) ==
    Strip(Lower(x)) = Strip(Lower(y))

\* a string of hex digits of even length
ValidEvenHex(h) ==
    /\ Len(h) % 2 = 0
    /\ \A i \in 1..Len(h) : HexDigitValue(h[i]) >= 0

\* the value of a byte string read big-endian
RECURSIVE BigEndian(_)
BigEndian(bs) ==
    IF Len(bs) = 0
    THEN 0
    ELSE (256 * BigEndian(SubSeq(bs, 1, Len(bs) - 1))) + bs[Len(bs)]

\* what a reading decodes to: its bytes, None without telemetry or when it is
\* not base64
DecodeOpt(raw_b64) ==
    IF Truthy(raw_b64) /\ B64Valid(raw_b64.val)
    THEN Some(B64Decode(raw_b64.val))
    ELSE None

\* C1: two do() calls on one Device whose aliases are equal after lower-casing
\* and stripping resolve to the same command hex or are both rejected; with
\* command_map = {"latte": {"command": "a1"}, ...} the aliases "Latte",
\* " latte " and "LATTE" resolve to "a1".
C1_CommandAliasNormalised ==
    (pc = "ready" /\ ret.op = "do") =>
        /\ (prev_do.called /\ NormEq(ret.arg, prev_do.arg)) =>
              ret.resolved = prev_do.resolved
        /\ (document = DocFull /\ ret.arg \in { Latte, LatteCap, LattePadded, LatteUpper }) =>
              ret.resolved = Some(HexA1)

\* C1 witness: do(" latte ") after do("Latte") or do("LATTE"), both resolved to "a1"
C1_Witness ==
    /\ pc = "ready"
    /\ ret.op = "do"
    /\ ret.arg = LattePadded
    /\ prev_do.called
    /\ prev_do.arg \in { LatteCap, LatteUpper }
    /\ ret.resolved = Some(HexA1)
    /\ prev_do.resolved = Some(HexA1)

\* C2: resolve_property(alias) returns property_map[alias] when alias is a key
\* exactly as given and the alias unchanged otherwise (no case folding, no
\* trimming); get_property(name) asks the transport for exactly that key.
C2_PropertyExactMatchFallback ==
    (pc = "ready" /\ property_map.kind = "dict"
        /\ ret.op \in { "resolve_property", "get_property" }) =>
        LET expected == IF ret.arg \in DOMAIN property_map.dict
                        THEN property_map.dict[ret.arg]
                        ELSE ret.arg
        IN  /\ ret.status = "ok"
            /\ (ret.op = "resolve_property") => ret.val = Some(expected)
            /\ (ret.op = "get_property") => ret.queried = Some(expected)
            /\ (document = DocFull /\ ret.arg = Temp) => expected = KeyT1
            /\ (document = DocFull /\ ret.arg \in { Pressure, TempPadded }) =>
                  expected = ret.arg

\* C2 witness: get_property(" temp") with "temp" a key: the transport is asked
\* for " temp", untrimmed
C2_Witness ==
    /\ pc = "ready"
    /\ property_map.kind = "dict"
    /\ Temp \in DOMAIN property_map.dict
    /\ ret.op = "get_property"
    /\ ret.arg = TempPadded
    /\ ret.queried = Some(TempPadded)

\* C3: a payload given to the transport is base64 of the raw command bytes
\* followed by the big-endian bytes of the whole seconds since the epoch, with
\* no leading zero byte, so the command bytes are a prefix of the decoded
\* payload; raw hex "a1" at epoch second 0x10 encodes to base64([0xa1, 0x10]).
C3_EncodedPayload ==
    (ret.op \in { "send_command", "do" } /\ ret.sent.some) =>
        LET command == IF ret.op = "do" THEN ret.resolved.val ELSE ret.arg
            head    == FromHex(command).bytes
            raw     == B64Decode(ret.sent.val)
            suffix  == SubSeq(raw, Len(head) + 1, Len(raw))
        IN  /\ B64Valid(ret.sent.val)
            /\ Len(raw) > Len(head)
            /\ SubSeq(raw, 1, Len(head)) = head
            /\ suffix[1] # 0
            /\ BigEndian(suffix) = ret.now
            /\ (command = HexA1 /\ ret.now = 16) =>
                  ret.sent.val = << "o", "R", "A", "=" >>

\* C3 witness: send_command("a1") at epoch second 0x10 sent "oRA="
C3_Witness ==
    /\ ret.op = "send_command"
    /\ ret.arg = HexA1
    /\ ret.now = 16
    /\ ret.sent = Some(B64Encode(<< 161, 16 >>))

\* C4: do(alias) with an alias whose normalised form has no entry in
\* command_map, or whose entry has no non-empty "command", ends in an error and
\* gives nothing to transport.send_command.
C4_UnknownCommandRejected ==
    (pc = "ready" /\ ret.op = "do"
        /\ (command_map.kind = "dict" =>
               ~Truthy(LookupCommand(command_map.dict, Strip(Lower(ret.arg)))))) =>
        /\ ret.status = "error"
        /\ ~ret.sent.some

\* C4 witness: do("Mocha") on a Device whose command_map has no key "mocha"
C4_Witness ==
    /\ pc = "ready"
    /\ command_map.kind = "dict"
    /\ Latte \in DOMAIN command_map.dict
    /\ ret.op = "do"
    /\ ret.arg = Mocha
    /\ ret.status = "error"
    /\ ret.exc = "ValueError"
    /\ ~ret.sent.some

\* C5 as claimed: get_monitor_frame on a raw_b64 that is not valid base64 ends
\* in an explicit failure (MalformedEncoding).
C5_MalformedIsHardError ==
    (ret.op = "get_monitor_frame" /\ Truthy(ret.tel) /\ ~B64Valid(ret.tel.val)) =>
        /\ ret.status = "error"
        /\ ret.exc = "MalformedEncoding"

\* C5 as amended: get_monitor_frame on a raw_b64 that is not valid base64
\* absorbs the decode error and returns None, the result it also gives when
\* there is no telemetry.
C5_MalformedReturnsNone ==
    (ret.op = "get_monitor_frame" /\ (~Truthy(ret.tel) \/ ~B64Valid(ret.tel.val))) =>
        /\ ret.status = "ok"
        /\ ret.val = None

\* C5 witness: get_monitor_frame returned None on "not-valid!!"
C5_Witness ==
    /\ ret.op = "get_monitor_frame"
    /\ Truthy(ret.tel)
    /\ ~B64Valid(ret.tel.val)
    /\ ret.status = "ok"
    /\ ret.val = None

\* C6 as claimed: for no map path, a document that is not a mapping, a mapping
\* with a section missing or a section of the wrong shape, from_map returns a
\* Device, and each of command_map, property_map and monitor_profile whose
\* section is absent or malformed is empty.
C6_AbsentOrMalformedLoadsEmpty ==
    (pc # "new" /\ document.kind \in { "nopath", "notmapping", "mapping" }) =>
        /\ pc = "ready"
        /\ (document.command_map.kind # "dict") => IsEmptyDict(command_map)
        /\ (document.property_map.kind # "dict") => IsEmptyDict(property_map)
        /\ (document.monitor_profile.kind # "dict") =>
              DOMAIN monitor_profile.fields = {}

\* C7 as claimed: every access on a view reflects the transport's reading at
\* the time of the access.
C7_ViewIsLive ==
    (ret.op = "view") => ret.val = DecodeOpt(ret.tel)

\* C7 as amended: a view holds the snapshot read when get_monitor made it, and
\* every access on it reflects that reading, whatever the transport reads now.
C7_ViewReflectsReadingAtCreation ==
    /\ view.made => view.snapshot.raw_b64 = view.born
    /\ (ret.op = "view") => ret.val = DecodeOpt(ret.born)

\* C7 witness: an access, after the telemetry changed, that returned the
\* reading of the view's creation and not the present one
C7_Witness ==
    /\ ret.op = "view"
    /\ ret.tel # ret.born
    /\ DecodeOpt(ret.tel) # DecodeOpt(ret.born)
    /\ ret.val = DecodeOpt(ret.born)

\* C8 as claimed: for every valid even-length hex command and every instant,
\* send_command builds a payload and gives it to the transport without raising.
C8_ValidHexAlwaysEncodes ==
    (ret.op = "send_command" /\ ValidEvenHex(ret.arg)) =>
        /\ ret.status = "ok"
        /\ ret.sent.some

\* C9: after any sequence of calls command_map, property_map and
\* monitor_profile are as constructed, and get_monitor_snapshot, get_monitor
\* and get_monitor_frame each make one transport read and answer from it.
C9_NoCrossCallState ==
    (pc = "ready") =>
        /\ command_map = constructed.command_map
        /\ property_map = constructed.property_map
        /\ monitor_profile = constructed.monitor_profile
        /\ (ret.op \in { "get_monitor_snapshot", "get_monitor", "get_monitor_frame" }) =>
              ret.reads = 1
        /\ (ret.op \in { "get_monitor_snapshot", "get_monitor" }) => ret.val = ret.tel
        /\ (ret.op = "get_monitor_frame") => ret.val = DecodeOpt(ret.tel)
        /\ (ret.op \notin { "get_monitor_snapshot", "get_monitor", "get_monitor_frame" }) =>
              ret.reads = 0

\* C9 witness: a get_monitor_frame that decoded the present reading, after do()
\* calls, a get_monitor and a change of telemetry since that view was made
C9_Witness ==
    /\ pc = "ready"
    /\ IsEmptyDict(command_map) = FALSE
    /\ prev_do.called
    /\ view.made
    /\ view.born # ret.tel
    /\ ret.op = "get_monitor_frame"
    /\ ret.val = Some(<< 1, 2, 3 >>)

\* C10: from_map calls set_mappings at most once, only on a transport that
\* has it, with the command_map and property_map the Device receives; when
\* set_mappings raises, from_map still returns the Device with the loaded maps.
C10_SetMappingsBestEffort ==
    /\ Len(set_mappings_log) <= 1
    /\ (Len(set_mappings_log) = 1) =>
          /\ transport.has_set_mappings
          /\ pc = "ready"
          /\ set_mappings_log[1] =
                [command_map |-> command_map, property_map |-> property_map]
    /\ (pc # "new" /\ document.kind # "invalid_json") =>
          /\ pc = "ready"
          /\ (document = DocFull) =>
                /\ command_map = JDict(CommandMapData)
                /\ property_map = JDict(PropertyMapData)

\* C10 witness: set_mappings raised and stored nothing, and the Device was
\* built with the loaded maps
C10_Witness ==
    /\ pc = "ready"
    /\ transport.set_mappings_raises
    /\ Len(set_mappings_log) = 1
    /\ ~t_mappings.set
    /\ command_map = JDict(CommandMapData)

====
